---- MODULE Spec2Model ----
(***************************************************************************)
(* HeliusService (src/src/rpc/helius-service.ts): the on-demand WebSocket  *)
(* connection, the subscription table and the idle-disconnect timer of the *)
(* push-capable RPC provider, as a state machine (Spec, FairSpec); and     *)
(* InfuraService (src/src/rpc/infura-service.ts), the polling-only         *)
(* provider (InfuraSpec).                                                  *)
(*                                                                         *)
(* One action is one turn of the JavaScript event loop (a transport event  *)
(* or a timer callback together with the promise continuations it          *)
(* releases), or one synchronous API call (monitorTransaction up to its    *)
(* first await, disconnect).  A continuation that is already queued        *)
(* (microtasks) runs before any further event or timer.                    *)
(***************************************************************************)
EXTENDS Integers, Sequences, FiniteSets, TLC

\* ------------------------------------------------------------------ bounds
MaxCalls == 2
MaxServerId == 2

Calls == 1..MaxCalls
\* a socket is constructed only inside a monitorTransaction call, at most one
\* per call
Sockets == 1..MaxCalls
ServerIds == 1..MaxServerId

\* ------------------------------------------------- values of the program
NoOutcome == [st |-> "none", confirmed |-> FALSE, txData |-> "undefined", error |-> ""]
Pending == [st |-> "pending", confirmed |-> FALSE, txData |-> "undefined", error |-> ""]
Resolved(confirmed, txData) == [st |-> "resolved", confirmed |-> confirmed, txData |-> txData, error |-> ""]
Rejected(message) == [st |-> "rejected", confirmed |-> FALSE, txData |-> "undefined", error |-> message]

ErrNotAvailable == "WebSocket not available"
ErrServiceDisconnected == "Service disconnected"
ErrWebSocketDisconnected == "WebSocket disconnected"
\* thrown by `(this.ws as WebSocket).send(...)` when this.ws is null
ErrSendOnNull == "TypeError: Cannot read properties of null (reading 'send')"
\* thrown by ws's send() on a socket whose handshake has not completed
ErrSendConnecting == "WebSocket is not open: readyState 0 (CONNECTING)"

\* params.result of a signatureNotification: value is an object with an err
\* field (null or an error object), an object without one, or a string
Payloads == {"value:{err:null}", "value:{err:{InstructionError}}", "value:{}", "value:'str'"}
ValueIsObject(p) == p # "value:'str'"
ErrInValue(p) == p \in {"value:{err:null}", "value:{err:{InstructionError}}"}
ValueErrTruthy(p) == p = "value:{err:{InstructionError}}"

\* error.message of a vendor error response, as its words
ErrorMessages == {<<"Invalid", "subscription", "id">>, <<"Invalid", "params">>}
ErrorCodes == {-32602, -32000}

RECURSIVE JoinWords(_)
JoinWords(w) ==
  IF Len(w) = 0 THEN ""
  ELSE IF Len(w) = 1 THEN w[1]
  ELSE w[1] \o " " \o JoinWords(Tail(w))

\* String.prototype.includes, on words
Includes(w, part) ==
  \E i \in 0..(Len(w) - Len(part)) : \A j \in 1..Len(part) : w[i + j] = part[j]

\* ----------------------------------------------------------------- frames
\* A parsed inbound frame.  0 stands for an absent result / id, code 0 for
\* an absent error object.
NotificationFrame(method, s, p) ==
  [method |-> method, hasParams |-> TRUE, subscription |-> s, payload |-> p,
   result |-> 0, id |-> 0, code |-> 0, message |-> <<>>]
AckFrame(id, s) ==
  [method |-> "", hasParams |-> FALSE, subscription |-> 0, payload |-> "",
   result |-> s, id |-> id, code |-> 0, message |-> <<>>]
ErrorFrame(id, code, msg) ==
  [method |-> "", hasParams |-> FALSE, subscription |-> 0, payload |-> "",
   result |-> 0, id |-> id, code |-> code, message |-> msg]

\* the frame monitorTransaction hands to ws.send() on socket w
SubscribeFrame(w, id) == [socket |-> w, id |-> id, method |-> "signatureSubscribe"]

\* ------------------------------------------------------------------- state
VARIABLES
  apiKey,              \* config.apiKey
  network,             \* networkInfo.network
  socketUrl,           \* the url each socket was constructed with
  lastOp,              \* the operation, event or timer that ran last
  infura,              \* the InfuraService instance
  readyState,          \* readyState of every socket constructed so far
  connectPromise,      \* the promise of connectWebSocket(), per socket
  nSockets,            \* number of `new WebSocket(...)` so far
  ws,                  \* this.ws: 0 for null, else the socket
  connecting,          \* this.connecting: 0 for null, else the attempt's socket
  waiters,             \* calls awaiting this.connecting, in await order
  microtasks,          \* calls whose ensureWebSocketConnected() returned true at once
  pc,                  \* where each monitorTransaction call stands
  outcome,             \* the promise each call returned
  settles,             \* times a call's resolve / reject callback was invoked
  localId,             \* the subscriptionId each call allocated (0: none)
  subscriptions,       \* this.subscriptions, in insertion order
  timeout,             \* each call's subscription timer
  nextSubscriptionId,  \* this.nextSubscriptionId
  idleTimeout,         \* this.idleTimeout
  sent,                \* frames handed to ws.send()
  vendorSub            \* the server id the vendor assigned to each request id

vars == <<apiKey, network, socketUrl, lastOp, infura, readyState, connectPromise, nSockets, ws, connecting, waiters,
          microtasks, pc, outcome, settles, localId, subscriptions, timeout,
          nextSubscriptionId, idleTimeout, sent, vendorSub>>

\* --------------------------------------------------- Map<number, ...>
\* this.subscriptions is a sequence of [key, call] in insertion order.
MapKeys(m) == {m[i].key : i \in 1..Len(m)}
MapHas(m, k) == k \in MapKeys(m)
MapGet(m, k) == (CHOOSE i \in 1..Len(m) : m[i].key = k)
MapCall(m, k) == m[MapGet(m, k)].call
MapDelete(m, k) == SelectSeq(m, LAMBDA e : e.key # k)
MapSet(m, k, c) ==
  IF MapHas(m, k) THEN [m EXCEPT ![MapGet(m, k)] = [key |-> k, call |-> c]]
  ELSE Append(m, [key |-> k, call |-> c])

\* ------------------------------------------------ the provider's heap
\* The fields a callback may change, threaded through the handlers.
Heap ==
  [subscriptions |-> subscriptions, timeout |-> timeout, outcome |-> outcome,
   settles |-> settles, idleTimeout |-> idleTimeout, localId |-> localId,
   nextSubscriptionId |-> nextSubscriptionId, sent |-> sent, pc |-> pc]

Commit(h) ==
  /\ subscriptions' = h.subscriptions
  /\ timeout' = h.timeout
  /\ outcome' = h.outcome
  /\ settles' = h.settles
  /\ idleTimeout' = h.idleTimeout
  /\ localId' = h.localId
  /\ nextSubscriptionId' = h.nextSubscriptionId
  /\ sent' = h.sent
  /\ pc' = h.pc

\* RPCProvider.isApiKeyValid (rpc-provider-base): a missing key is invalid
isApiKeyValid == apiKey # ""

supportsTransactionMonitoring == isApiKeyValid

\* networkInfo.network, as the pieces of its name
Networks == {<<"mainnet-beta">>, <<"devnet">>, <<"solana-", "devnet", "-2">>}
NullUrl == "<null>"
Subdomain_ExactMatch(net) == IF net = <<"devnet">> THEN "devnet" ELSE "mainnet"
Subdomain(net) == IF Includes(net, <<"devnet">>) THEN "devnet" ELSE "mainnet"
getHttpUrl(net) == "https://" \o Subdomain(net) \o ".helius-rpc.com/?api-key=" \o apiKey
getWebSocketUrl(net) ==
  IF ~isApiKeyValid THEN NullUrl
  ELSE "wss://" \o Subdomain(net) \o ".helius-rpc.com/?api-key=" \o apiKey

IsOpen(w, rs) == w # 0 /\ rs[w] = "OPEN"
isWebSocketConnected == IsOpen(ws, readyState)

\* WebSocket.close(): an open or connecting socket starts closing
CloseSocket(rs, w) ==
  [rs EXCEPT ![w] = IF @ \in {"CONNECTING", "OPEN"} THEN "CLOSING" ELSE @]

cancelIdleTimeout(h) ==
  IF h.idleTimeout # "null" THEN [h EXCEPT !.idleTimeout = "null"] ELSE h

scheduleIdleDisconnect(h) ==
  IF Len(h.subscriptions) > 0 THEN h
  ELSE [cancelIdleTimeout(h) EXCEPT !.idleTimeout = "armed"]

\* clearTimeout on a timer that already fired changes nothing
clearTimeout(h, c) ==
  [h EXCEPT !.timeout[c] = IF @ = "armed" THEN "cleared" ELSE @]

\* resolve(...) / reject(...) of the promise of line 92: only the first
\* invocation decides the promise
settle(h, c, result) ==
  [h EXCEPT !.settles[c] = @ + 1,
            !.outcome[c] = IF @.st = "pending" THEN result ELSE @]

resolveWithCleanup(h, c, result) ==
  settle(scheduleIdleDisconnect(
           [h EXCEPT !.subscriptions = MapDelete(@, h.localId[c])]), c, result)

rejectWithCleanup(h, c, error) ==
  settle(scheduleIdleDisconnect(
           [h EXCEPT !.subscriptions = MapDelete(@, h.localId[c])]), c, Rejected(error))

timeoutCallback_NoResolve(h, c) ==
  scheduleIdleDisconnect(
    [h EXCEPT !.subscriptions = MapDelete(@, h.localId[c]), !.timeout[c] = "fired"])

\* the setTimeout callback of lines 107-111
timeoutCallback(h, c) ==
  settle(scheduleIdleDisconnect(
           [h EXCEPT !.subscriptions = MapDelete(@, h.localId[c]),
                     !.timeout[c] = "fired"]), c, Resolved(FALSE, "undefined"))

\* the executor of the promise of lines 92-129, with this.ws = w
subscribe(h, c, w, rs) ==
  LET id == h.nextSubscriptionId
      h1 == [h EXCEPT !.nextSubscriptionId = id + 1,
                      !.localId[c] = id,
                      !.timeout[c] = "armed",
                      !.subscriptions = MapSet(@, id, c),
                      !.pc[c] = "subscribed"]
  IN IF w = 0 THEN settle(h1, c, Rejected(ErrSendOnNull))
     ELSE IF rs[w] = "CONNECTING" THEN settle(h1, c, Rejected(ErrSendConnecting))
     ELSE IF rs[w] = "OPEN"
          THEN [h1 EXCEPT !.sent = @ \cup {SubscribeFrame(w, id)}]
          ELSE h1

monitorContinuation_NoCancel(h, c, connected, w, rs) ==
  IF ~connected
  THEN [h EXCEPT !.outcome[c] = Rejected(ErrNotAvailable), !.pc[c] = "refused"]
  ELSE subscribe(h, c, w, rs)

monitorContinuation_IgnoreResult(h, c, connected, w, rs) ==
  subscribe(cancelIdleTimeout(h), c, w, rs)

\* monitorTransaction after `await this.ensureWebSocketConnected()`
monitorContinuation(h, c, connected, w, rs) ==
  IF ~connected
  THEN [h EXCEPT !.outcome[c] = Rejected(ErrNotAvailable), !.pc[c] = "refused"]
  ELSE subscribe(cancelIdleTimeout(h), c, w, rs)

isBenignError_Never(m) == FALSE

\* `message.error.code === -32602 && message.error.message?.includes('Invalid subscription')`
isBenignError(m) ==
  m.code = -32602 /\ Includes(m.message, <<"Invalid", "subscription">>)

handleWebSocketMessage(h, m) ==
  IF m.method = "signatureNotification" /\ m.hasParams
  THEN IF MapHas(h.subscriptions, m.subscription)
       THEN LET c == MapCall(h.subscriptions, m.subscription)
                h1 == [clearTimeout(h, c) EXCEPT
                         !.subscriptions = MapDelete(@, m.subscription)]
            IN IF ValueIsObject(m.payload) /\ ErrInValue(m.payload)
                  /\ ValueErrTruthy(m.payload)
               THEN resolveWithCleanup(h1, c, Resolved(FALSE, m.payload))
               ELSE resolveWithCleanup(h1, c, Resolved(TRUE, m.payload))
       ELSE h
  ELSE IF m.result # 0 /\ m.id # 0
  THEN IF MapHas(h.subscriptions, m.id)
       THEN LET c == MapCall(h.subscriptions, m.id)
            IN [h EXCEPT !.subscriptions = MapSet(MapDelete(@, m.id), m.result, c)]
       ELSE h
  ELSE IF m.code # 0
  THEN IF isBenignError(m)
       THEN h
       ELSE IF MapHas(h.subscriptions, m.id)
            THEN LET c == MapCall(h.subscriptions, m.id)
                     h1 == [clearTimeout(h, c) EXCEPT
                              !.subscriptions = MapDelete(@, m.id)]
                 IN rejectWithCleanup(h1, c, "WebSocket error: " \o JoinWords(m.message))
            ELSE h
  ELSE h

\* `for (const [_, subscription] of this.subscriptions) { clearTimeout; reject }`:
\* the iteration is live, an entry deleted before it is reached is skipped
RECURSIVE rejectAll(_, _, _)
rejectAll(h, visited, error) ==
  LET rest == SelectSeq(h.subscriptions, LAMBDA e : e.key \notin visited)
  IN IF Len(rest) = 0 THEN h
     ELSE rejectAll(rejectWithCleanup(clearTimeout(h, rest[1].call), rest[1].call, error),
                    visited \cup {rest[1].key}, error)

handleWebSocketClose(h) ==
  cancelIdleTimeout([rejectAll(h, {}, ErrWebSocketDisconnected) EXCEPT
                       !.subscriptions = <<>>])

\* --------------------------------------------------------- InfuraService
\* networkInfo.chain and networkInfo.chainId the provider may be given
Chains == {"ethereum", "solana"}
ChainIds == {1, 10, 137, 11155111, 2, 101}

\* InfuraService.NETWORK_MAP, four of its entries
NETWORK_MAP ==
  (1 :> "mainnet") @@ (10 :> "optimism-mainnet") @@ (137 :> "polygon-mainnet")
    @@ (11155111 :> "sepolia")

Throws == "<throws>"

getInfuraNetworkName(chainId) ==
  IF chainId \in DOMAIN NETWORK_MAP THEN NETWORK_MAP[chainId] ELSE Throws

Infura_getHttpUrl(chainId) ==
  IF getInfuraNetworkName(chainId) = Throws THEN Throws
  ELSE "https://" \o getInfuraNetworkName(chainId) \o ".infura.io/v3/" \o apiKey

Infura_getWebSocketUrl_Wss == "wss://mainnet.infura.io/ws/v3/" \o apiKey
Infura_getWebSocketUrl == NullUrl

\* RPCProvider's defaults (rpc-provider-base), which InfuraService keeps
Infura_supportsTransactionMonitoring == FALSE
ErrUnsupported == "unsupported"

\* no instance yet; chain and chainId are what the constructor will be given
InfuraAbsent(chain, chainId) ==
  [chain |-> chain, chainId |-> chainId, state |-> "absent", provider |-> "none",
   probe |-> "none", health |-> "none", monitor |-> NoOutcome]

\* ------------------------------------------------------------ initial state
ApiKeys == {"", "k1"}

\* the provider right after `new HeliusService(config, networkInfo)`
HeliusNew ==
  /\ socketUrl = [s \in Sockets |-> ""]
  /\ lastOp = "new"
  /\ readyState = [s \in Sockets |-> "NONE"]
  /\ connectPromise = [s \in Sockets |-> "none"]
  /\ nSockets = 0
  /\ ws = 0
  /\ connecting = 0
  /\ waiters = <<>>
  /\ microtasks = <<>>
  /\ pc = [c \in Calls |-> "new"]
  /\ outcome = [c \in Calls |-> NoOutcome]
  /\ settles = [c \in Calls |-> 0]
  /\ localId = [c \in Calls |-> 0]
  /\ subscriptions = <<>>
  /\ timeout = [c \in Calls |-> "none"]
  /\ nextSubscriptionId = 1
  /\ idleTimeout = "null"
  /\ sent = {}
  /\ vendorSub = [i \in Calls |-> 0]

Init ==
  /\ apiKey \in ApiKeys
  /\ network \in Networks
  /\ HeliusNew
  /\ infura = InfuraAbsent("ethereum", 1)

\* ------------------------------------------------------------- API calls
\* monitorTransaction(signature, timeoutMs) up to the first await that
\* suspends it: ensureWebSocketConnected() and, on a fresh attempt,
\* connectWebSocket() with its `new WebSocket(wsUrl)`.
\* ensureWebSocketConnected() up to its first suspension: "false" / "true"
\* returned at once, "join" the attempt in flight, or "connect"
ensureWebSocketConnected_NoKeyCheck ==
  IF isWebSocketConnected THEN "true"
  ELSE IF connecting # 0 THEN "join"
  ELSE "connect"

ensureWebSocketConnected_NoJoin ==
  IF ~isApiKeyValid THEN "false"
  ELSE IF isWebSocketConnected THEN "true"
  ELSE "connect"

ensureWebSocketConnected ==
  IF ~isApiKeyValid THEN "false"
  ELSE IF isWebSocketConnected THEN "true"
  ELSE IF connecting # 0 THEN "join"
  ELSE "connect"

monitorTransaction(c) ==
  /\ pc[c] = "new"
  /\ \A b \in Calls : b < c => pc[b] # "new"
  /\ lastOp' = "monitorTransaction"
  /\ IF ensureWebSocketConnected = "false"
     THEN /\ outcome' = [outcome EXCEPT ![c] = Rejected(ErrNotAvailable)]
          /\ pc' = [pc EXCEPT ![c] = "refused"]
          /\ UNCHANGED <<readyState, connectPromise, nSockets, ws, connecting,
                         waiters, microtasks, socketUrl>>
     ELSE IF ensureWebSocketConnected = "true"
     THEN /\ outcome' = [outcome EXCEPT ![c] = Pending]
          /\ pc' = [pc EXCEPT ![c] = "checked"]
          /\ microtasks' = Append(microtasks, c)
          /\ UNCHANGED <<readyState, connectPromise, nSockets, ws, connecting, waiters,
                         socketUrl>>
     ELSE IF ensureWebSocketConnected = "join"
     THEN /\ outcome' = [outcome EXCEPT ![c] = Pending]
          /\ pc' = [pc EXCEPT ![c] = "awaitJoin"]
          /\ waiters' = Append(waiters, c)
          /\ UNCHANGED <<readyState, connectPromise, nSockets, ws, connecting, microtasks,
                         socketUrl>>
     ELSE /\ nSockets' = nSockets + 1
          /\ socketUrl' = [socketUrl EXCEPT ![nSockets + 1] = getWebSocketUrl(network)]
          /\ readyState' = [readyState EXCEPT ![nSockets + 1] = "CONNECTING"]
          /\ connectPromise' = [connectPromise EXCEPT ![nSockets + 1] = "pending"]
          /\ ws' = nSockets + 1
          /\ connecting' = nSockets + 1
          /\ outcome' = [outcome EXCEPT ![c] = Pending]
          /\ pc' = [pc EXCEPT ![c] = "awaitFirst"]
          /\ waiters' = <<c>>
          /\ UNCHANGED microtasks
  /\ UNCHANGED <<apiKey, network, infura, settles, localId, subscriptions, timeout,
                 nextSubscriptionId, idleTimeout, sent, vendorSub>>

initialize_Eager ==
  /\ lastOp' = "initialize"
  /\ IF isApiKeyValid /\ ws = 0 /\ connecting = 0 /\ nSockets < MaxCalls
     THEN /\ nSockets' = nSockets + 1
          /\ socketUrl' = [socketUrl EXCEPT ![nSockets + 1] = getWebSocketUrl(network)]
          /\ readyState' = [readyState EXCEPT ![nSockets + 1] = "CONNECTING"]
          /\ connectPromise' = [connectPromise EXCEPT ![nSockets + 1] = "pending"]
          /\ ws' = nSockets + 1
          /\ connecting' = nSockets + 1
     ELSE UNCHANGED <<nSockets, socketUrl, readyState, connectPromise, ws, connecting>>
  /\ UNCHANGED <<apiKey, network, infura, waiters, microtasks, pc, outcome,
                 settles, localId, subscriptions, timeout, nextSubscriptionId,
                 idleTimeout, sent, vendorSub>>

\* initialize(): logs, nothing else
initialize ==
  /\ lastOp' = "initialize"
  /\ UNCHANGED <<apiKey, network, infura, socketUrl, readyState, connectPromise,
                 nSockets, ws, connecting, waiters, microtasks, pc, outcome,
                 settles, localId, subscriptions, timeout, nextSubscriptionId,
                 idleTimeout, sent, vendorSub>>

\* the rest of monitorTransaction for a call that found the socket open
ContinueMonitor ==
  /\ microtasks # <<>>
  /\ lastOp' = "ContinueMonitor"
  /\ Commit(monitorContinuation(Heap, Head(microtasks), TRUE, ws, readyState))
  /\ microtasks' = Tail(microtasks)
  /\ UNCHANGED <<apiKey, network, infura, socketUrl, readyState, connectPromise, nSockets, ws, connecting,
                 waiters, vendorSub>>

disconnectHeap_ResetIds(h) ==
  [rejectAll(cancelIdleTimeout(h), {}, ErrServiceDisconnected) EXCEPT
     !.subscriptions = <<>>, !.nextSubscriptionId = 1]

\* disconnect() up to `this.subscriptions.clear()`
disconnectHeap(h) ==
  [rejectAll(cancelIdleTimeout(h), {}, ErrServiceDisconnected) EXCEPT
     !.subscriptions = <<>>]

disconnect ==
  /\ lastOp' = "disconnect"
  /\ Commit(disconnectHeap(Heap))
  /\ IF ws # 0
     THEN readyState' = CloseSocket(readyState, ws) /\ ws' = 0
     ELSE UNCHANGED <<readyState, ws>>
  /\ UNCHANGED <<apiKey, network, infura, socketUrl, connectPromise, nSockets, connecting, waiters,
                 microtasks, vendorSub>>

\* ------------------------------------------------------ transport events
\* The calls awaiting this.connecting resume in await order: the call that
\* started the attempt takes ensureWebSocketConnected's result as given
\* (true on open, false on error), a call that joined re-reads
\* isWebSocketConnected() on open.
RECURSIVE resumeWaiters(_, _, _, _, _, _)
resumeWaiters(h, q, i, opened, w, rs) ==
  IF i > Len(q) THEN h
  ELSE resumeWaiters(
         monitorContinuation(h, q[i],
                             IF h.pc[q[i]] = "awaitFirst" THEN opened
                             ELSE opened /\ IsOpen(w, rs),
                             w, rs),
         q, i + 1, opened, w, rs)

OnOpen(s) ==
  /\ microtasks = <<>>
  /\ lastOp' = "OnOpen"
  /\ readyState[s] = "CONNECTING"
  /\ readyState' = [readyState EXCEPT ![s] = "OPEN"]
  /\ connectPromise' = [connectPromise EXCEPT ![s] = "resolved"]
  /\ connecting' = 0
  /\ waiters' = <<>>
  /\ Commit(resumeWaiters(Heap, waiters, 1, TRUE, ws, readyState'))
  /\ UNCHANGED <<apiKey, network, infura, socketUrl, nSockets, ws, microtasks, vendorSub>>

OnError(s) ==
  /\ microtasks = <<>>
  /\ lastOp' = "OnError"
  /\ \/ readyState[s] \in {"CONNECTING", "OPEN"}
     \/ readyState[s] = "CLOSING" /\ connectPromise[s] = "pending"
  /\ readyState' = [readyState EXCEPT ![s] = "CLOSING"]
  /\ IF connectPromise[s] = "pending"
     THEN /\ connectPromise' = [connectPromise EXCEPT ![s] = "rejected"]
          /\ connecting' = 0
          /\ waiters' = <<>>
          /\ Commit(resumeWaiters(Heap, waiters, 1, FALSE, ws, readyState'))
     ELSE UNCHANGED <<connectPromise, connecting, waiters, subscriptions, timeout,
                      outcome, settles, idleTimeout, localId, nextSubscriptionId,
                      sent, pc>>
  /\ UNCHANGED <<apiKey, network, infura, socketUrl, nSockets, ws, microtasks, vendorSub>>

\* ws emits 'error' before 'close' for a handshake that fails or is aborted,
\* so 'close' finds the attempt's promise settled
OnClose(s) ==
  /\ microtasks = <<>>
  /\ lastOp' = "OnClose"
  /\ readyState[s] \in {"OPEN", "CLOSING"}
  /\ connectPromise[s] # "pending"
  /\ readyState' = [readyState EXCEPT ![s] = "CLOSED"]
  /\ ws' = 0
  /\ Commit(handleWebSocketClose(Heap))
  /\ UNCHANGED <<apiKey, network, infura, socketUrl, connectPromise, nSockets, connecting, waiters,
                 microtasks, vendorSub>>

\* the 'message' handler: JSON.parse, then handleWebSocketMessage
OnMessage(s, m) ==
  /\ microtasks = <<>>
  /\ readyState[s] = "OPEN"
  /\ Commit(handleWebSocketMessage(Heap, m))
  /\ UNCHANGED <<apiKey, network, infura, socketUrl, readyState, connectPromise, nSockets, ws, connecting,
                 waiters, microtasks>>

OnNotification(s) ==
  \E sid \in ServerIds, p \in Payloads :
    /\ OnMessage(s, NotificationFrame("signatureNotification", sid, p))
    /\ lastOp' = "OnNotification"
    /\ UNCHANGED vendorSub

\* the vendor answers a subscribe request it received on this socket with a
\* server id it has not handed out before
OnAck(s) ==
  \E id \in Calls, sid \in ServerIds :
    /\ SubscribeFrame(s, id) \in sent
    /\ vendorSub[id] = 0
    /\ \A i \in Calls : vendorSub[i] # sid
    /\ OnMessage(s, AckFrame(id, sid))
    /\ lastOp' = "OnAck"
    /\ vendorSub' = [vendorSub EXCEPT ![id] = sid]

OnErrorResponse(s) ==
  \E id \in Calls, code \in ErrorCodes, msg \in ErrorMessages :
    /\ SubscribeFrame(s, id) \in sent
    /\ OnMessage(s, ErrorFrame(id, code, msg))
    /\ lastOp' = IF isBenignError(ErrorFrame(id, code, msg))
                 THEN "OnBenignError" ELSE "OnErrorResponse"
    /\ UNCHANGED vendorSub

\* Parsed frames that are neither a signatureNotification with params, nor
\* a result with a numeric id, nor an error: an unknown method, a
\* notification without params, a result without id, an empty object.
UnrecognizedFrames ==
  {f \in [method : {"", "unknownMethod", "signatureNotification"},
          hasParams : BOOLEAN, subscription : {0} \cup ServerIds,
          payload : {"value:{}"}, result : {0, 1}, id : {0, 1},
          code : {0}, message : {<<>>}] :
     /\ ~(f.method = "signatureNotification" /\ f.hasParams)
     /\ ~(f.result # 0 /\ f.id # 0)}

OnUnrecognized_Uncaught(s) ==
  /\ microtasks = <<>>
  /\ lastOp' = "OnUnrecognized"
  /\ readyState[s] = "OPEN"
  /\ \/ /\ \E f \in UnrecognizedFrames : Commit(handleWebSocketMessage(Heap, f))
        /\ UNCHANGED <<readyState, ws>>
     \/ /\ Commit(Heap)
        /\ readyState' = [readyState EXCEPT ![s] = "CLOSED"]
        /\ ws' = 0
  /\ UNCHANGED <<apiKey, network, infura, socketUrl, connectPromise,
                 nSockets, connecting, waiters, microtasks, vendorSub>>

\* 'message' with a frame of no known shape, or with data JSON.parse (or
\* the handler) throws on: the exception is caught and logged
OnUnrecognized(s) ==
  /\ microtasks = <<>>
  /\ lastOp' = "OnUnrecognized"
  /\ readyState[s] = "OPEN"
  /\ \/ \E f \in UnrecognizedFrames : Commit(handleWebSocketMessage(Heap, f))
     \/ Commit(Heap)
  /\ UNCHANGED <<apiKey, network, infura, socketUrl, readyState, connectPromise,
                 nSockets, ws, connecting, waiters, microtasks, vendorSub>>

\* ------------------------------------------------------------------ timers
Timeout(c) ==
  /\ microtasks = <<>>
  /\ lastOp' = "Timeout"
  /\ timeout[c] = "armed"
  /\ Commit(timeoutCallback(Heap, c))
  /\ UNCHANGED <<apiKey, network, infura, socketUrl, readyState, connectPromise, nSockets, ws, connecting,
                 waiters, microtasks, vendorSub>>

\* the setTimeout callback of lines 282-288
IdleTimeout ==
  /\ microtasks = <<>>
  /\ lastOp' = "IdleTimeout"
  /\ idleTimeout = "armed"
  /\ idleTimeout' = "fired"
  /\ IF Len(subscriptions) = 0 /\ ws # 0
     THEN readyState' = CloseSocket(readyState, ws) /\ ws' = 0
     ELSE UNCHANGED <<readyState, ws>>
  /\ UNCHANGED <<apiKey, network, infura, socketUrl, connectPromise, nSockets, connecting, waiters, microtasks,
                 pc, outcome, settles, localId, subscriptions, timeout,
                 nextSubscriptionId, sent, vendorSub>>

Next ==
  \/ initialize
  \/ \E c \in Calls : monitorTransaction(c)
  \/ ContinueMonitor
  \/ disconnect
  \/ \E s \in Sockets : OnOpen(s)
  \/ \E s \in Sockets : OnError(s)
  \/ \E s \in Sockets : OnClose(s)
  \/ \E s \in Sockets : OnNotification(s)
  \/ \E s \in Sockets : OnAck(s)
  \/ \E s \in Sockets : OnErrorResponse(s)
  \/ \E s \in Sockets : OnUnrecognized(s)
  \/ \E c \in Calls : Timeout(c)
  \/ IdleTimeout

Spec == Init /\ [][Next]_vars

\* Scheduling the runtime and the transport guarantee: queued continuations
\* run, an armed subscription timer fires, and a socket whose handshake is
\* still undecided reports 'open' or 'error'.
ConnectOutcome(s) == connectPromise[s] = "pending" /\ (OnOpen(s) \/ OnError(s))

FairSpec ==
  /\ Spec
  /\ WF_vars(ContinueMonitor)
  /\ \A s \in Sockets : WF_vars(ConnectOutcome(s))
  /\ \A c \in Calls : WF_vars(Timeout(c))

\* ------------------------------------------------- InfuraService, actions
heliusVars == <<network, socketUrl, readyState, connectPromise, nSockets, ws,
                connecting, waiters, microtasks, pc, outcome, settles, localId,
                subscriptions, timeout, nextSubscriptionId, idleTimeout, sent,
                vendorSub>>

\* new InfuraService(config, networkInfo): throws for a chain other than
\* ethereum, and from initializeHttpProvider -> getHttpUrl ->
\* getInfuraNetworkName for a chainId NETWORK_MAP lacks
InfuraConstruct ==
  /\ infura.state = "absent"
  /\ lastOp' = "InfuraConstruct"
  /\ infura' = IF infura.chain # "ethereum" \/ Infura_getHttpUrl(infura.chainId) = Throws
               THEN [infura EXCEPT !.state = "threw"]
               ELSE [infura EXCEPT !.state = "constructed", !.provider = "live"]
  /\ UNCHANGED <<apiKey, heliusVars>>

\* initialize(): logs the network name
InfuraInitialize ==
  /\ infura.state = "constructed"
  /\ lastOp' = "InfuraInitialize"
  /\ UNCHANGED <<apiKey, infura, heliusVars>>

healthCheck_Rethrow(probe, chainId) ==
  IF probe = "ok" THEN "true" ELSE "threw"

\* healthCheck() given how provider.getBlockNumber() ends; the log line of
\* either branch calls getInfuraNetworkName()
healthCheck(probe, chainId) ==
  IF getInfuraNetworkName(chainId) = Throws THEN "threw"
  ELSE IF probe = "ok" THEN "true"
  ELSE "false"

InfuraHealthCheck ==
  /\ infura.state = "constructed"
  /\ lastOp' = "InfuraHealthCheck"
  /\ \E probe \in (IF infura.provider = "live" THEN {"ok", "error"} ELSE {"error"}) :
       infura' = [infura EXCEPT !.probe = probe,
                                !.health = healthCheck(probe, infura.chainId)]
  /\ UNCHANGED <<apiKey, heliusVars>>

\* monitorTransaction is RPCProvider's: it rejects, touching nothing
InfuraMonitorTransaction ==
  /\ infura.state = "constructed"
  /\ lastOp' = "InfuraMonitorTransaction"
  /\ infura' = [infura EXCEPT !.monitor = Rejected(ErrUnsupported)]
  /\ UNCHANGED <<apiKey, heliusVars>>

\* disconnect(): destroys the provider if it has a destroy method
InfuraDisconnect ==
  /\ infura.state = "constructed"
  /\ lastOp' = "InfuraDisconnect"
  /\ \E hasDestroy \in BOOLEAN :
       infura' = [infura EXCEPT !.provider = IF hasDestroy THEN "destroyed" ELSE @]
  /\ UNCHANGED <<apiKey, heliusVars>>

InfuraInit ==
  /\ apiKey \in ApiKeys
  /\ network = <<"mainnet-beta">>
  /\ HeliusNew
  /\ \E chain \in Chains, chainId \in ChainIds : infura = InfuraAbsent(chain, chainId)

InfuraNext ==
  \/ InfuraConstruct
  \/ InfuraInitialize
  \/ InfuraHealthCheck
  \/ InfuraMonitorTransaction
  \/ InfuraDisconnect

InfuraSpec == InfuraInit /\ [][InfuraNext]_vars

\* ------------------------------------------------------------------ claims
EntryOf(m, c) == {i \in 1..Len(m) : m[i].call = c}
Settled(o) == o.st \in {"resolved", "rejected"}
\* a call that registered a subscription and whose promise is still pending
Outstanding(c) == pc[c] = "subscribed" /\ outcome[c].st = "pending"

\* C1: every monitorTransaction call settles at most once and its resolve /
\* reject callback is never invoked again after it has settled (a late or
\* duplicate notification re-triggers nothing).
C1_CallbackInvokedAtMostOnce == \A c \in Calls : settles[c] <= 1

\* C2: when a subscription's timer fires before the call has settled, acked
\* or not, its entry leaves the table and the call resolves with
\* confirmed=false and no details.
C2_TimeoutRemovesEntryAndResolvesFalse ==
  [][\A c \in Calls :
       (Timeout(c) /\ outcome[c].st = "pending")
         => /\ EntryOf(subscriptions', c) = {}
            /\ outcome'[c] = Resolved(FALSE, "undefined")]_vars

\* C3: a transport close, and likewise disconnect(), rejects every
\* outstanding waiter with the disconnect error, cancels every subscription
\* timer and leaves the table empty.
AllRejected(error) ==
  /\ subscriptions' = <<>>
  /\ \A c \in Calls : timeout'[c] # "armed"
  /\ \A c \in Calls : Outstanding(c) => outcome'[c] = Rejected(error)

C3_CloseRejectsAllOutstanding ==
  [][/\ (\E s \in Sockets : OnClose(s)) => AllRejected(ErrWebSocketDisconnected)
     /\ disconnect => AllRejected(ErrServiceDisconnected)]_vars

\* C4: calls issued while no connection is open share one attempt: the
\* first constructs the socket, every later one joins this.connecting and
\* constructs none.
C4_OneSharedAttempt ==
  /\ [](/\ Cardinality({c \in Calls : pc[c] = "awaitFirst"}) <= 1
        /\ \A c \in Calls :
             pc[c] \in {"awaitFirst", "awaitJoin"}
               => /\ connecting # 0
                  /\ {s \in Sockets : connectPromise[s] = "pending"} = {connecting})
  /\ [][\A c \in Calls :
          (pc[c] = "new" /\ pc'[c] # "new" /\ isApiKeyValid /\ ~isWebSocketConnected)
            => IF connecting # 0
               THEN /\ nSockets' = nSockets
                    /\ connecting' = connecting
                    /\ pc'[c] = "awaitJoin"
               ELSE /\ nSockets' = nSockets + 1
                    /\ connecting' = nSockets'
                    /\ pc'[c] = "awaitFirst"]_vars

C4_Witness ==
  \E a, b \in Calls :
    pc[a] = "awaitFirst" /\ pc[b] = "awaitJoin" /\ nSockets = 1

\* C5: once the acknowledgment of a pending subscription has been processed,
\* giving it server id s, a signatureNotification for s cancels its timer,
\* removes its entry and resolves it with the payload, confirmed exactly when
\* value.err is null or absent.
C5_NotificationResolvesAckedSubscription ==
  \A sid \in ServerIds, p \in Payloads, c \in Calls :
    (/\ microtasks = <<>>
     /\ localId[c] # 0
     /\ \E s \in Sockets :
          readyState[s] = "OPEN" /\ SubscribeFrame(s, localId[c]) \in sent
     /\ vendorSub[localId[c]] = sid
     /\ outcome[c].st = "pending")
      => LET h == handleWebSocketMessage(
                    Heap, NotificationFrame("signatureNotification", sid, p))
         IN /\ h.timeout[c] = "cleared"
            /\ EntryOf(h.subscriptions, c) = {}
            /\ h.outcome[c] = Resolved(p # "value:{err:{InstructionError}}", p)

\* C6: when the last outstanding subscription settles by notification, error
\* response or timeout and the connection is open, the idle timer is armed
\* (so that the connection closes once the idle delay elapses); a newly
\* registered subscription leaves no idle timer armed.
C6_IdleArmedWhenLastSubscriptionSettles ==
  [][/\ (/\ \/ \E c \in Calls : Timeout(c)
            \/ \E s \in Sockets : OnNotification(s)
            \/ \E s \in Sockets : OnErrorResponse(s)
         /\ \E c \in Calls : Outstanding(c) /\ Settled(outcome'[c])
         /\ \A c \in Calls : outcome'[c].st # "pending"
         /\ IsOpen(ws', readyState'))
          => idleTimeout' = "armed"
     /\ (\E c \in Calls : pc[c] # "subscribed" /\ pc'[c] = "subscribed")
          => idleTimeout' # "armed"]_vars

\* C7: an error response whose id matches a tracked pending subscription, for
\* any code and message, cancels its timer, removes its entry and rejects it
\* with 'WebSocket error: <message>'; nothing else is settled or removed.
C7_ErrorResponseRejectsOnlyItsWaiter ==
  \A s \in Sockets, id \in Calls, code \in ErrorCodes, msg \in ErrorMessages,
     c \in Calls :
    (/\ microtasks = <<>>
     /\ readyState[s] = "OPEN"
     /\ SubscribeFrame(s, id) \in sent
     /\ MapHas(subscriptions, id)
     /\ MapCall(subscriptions, id) = c
     /\ outcome[c].st = "pending")
      => LET h == handleWebSocketMessage(Heap, ErrorFrame(id, code, msg))
         IN /\ h.timeout[c] = "cleared"
            /\ EntryOf(h.subscriptions, c) = {}
            /\ h.outcome[c] = Rejected("WebSocket error: " \o JoinWords(msg))
            /\ \A d \in Calls \ {c} :
                 /\ h.outcome[d] = outcome[d]
                 /\ h.timeout[d] = timeout[d]
                 /\ EntryOf(subscriptions, d) # {} => EntryOf(h.subscriptions, d) # {}

\* C8: a transport error before open rejects every call waiting on the
\* attempt with 'WebSocket not available', registers and sends nothing,
\* opens no other socket and clears this.connecting, leaving the provider
\* disconnected; the next call then starts one fresh attempt.
C8_FailedAttemptRejectsWaiters ==
  [][/\ \A s \in Sockets :
          (connectPromise[s] = "pending" /\ connectPromise'[s] = "rejected")
            => /\ \A i \in 1..Len(waiters) :
                    /\ outcome'[waiters[i]] = Rejected(ErrNotAvailable)
                    /\ localId'[waiters[i]] = 0
                    /\ timeout'[waiters[i]] = "none"
               /\ subscriptions' = subscriptions
               /\ nextSubscriptionId' = nextSubscriptionId
               /\ sent' = sent
               /\ nSockets' = nSockets
               /\ connecting' = 0
               /\ ~IsOpen(ws', readyState')
     /\ \A c \in Calls :
          (/\ pc[c] = "new" /\ pc'[c] # "new"
           /\ \E s \in Sockets : connectPromise[s] = "rejected"
           /\ connecting = 0 /\ ~isWebSocketConnected)
            => /\ nSockets' = nSockets + 1
               /\ connecting' = nSockets'
               /\ connectPromise'[nSockets'] = "pending"]_vars

C8_Witness ==
  /\ connectPromise[1] = "rejected"
  /\ outcome[1] = Rejected(ErrNotAvailable)
  /\ nSockets = 2
  /\ connecting = 2
  /\ pc[2] = "awaitFirst"

\* C9: without a valid API key the provider reports no monitoring support and
\* no WebSocket URL, and monitorTransaction rejects with 'WebSocket not
\* available' leaving the provider's state as it was: no socket, no id, no
\* subscription, no timer.
C9_NoApiKeyNoMonitoring ==
  /\ [](~isApiKeyValid
          => /\ ~supportsTransactionMonitoring
             /\ \A net \in Networks : getWebSocketUrl(net) = NullUrl
             /\ nSockets = 0 /\ ws = 0 /\ connecting = 0
             /\ subscriptions = <<>> /\ nextSubscriptionId = 1
             /\ idleTimeout # "armed"
             /\ \A c \in Calls : timeout[c] = "none" /\ localId[c] = 0)
  /\ [][\A c \in Calls :
          (~isApiKeyValid /\ pc[c] = "new" /\ pc'[c] # "new")
            => /\ outcome'[c] = Rejected(ErrNotAvailable)
               /\ UNCHANGED <<readyState, connectPromise, nSockets, ws, connecting,
                              waiters, microtasks, settles, localId, subscriptions,
                              timeout, nextSubscriptionId, idleTimeout, sent>>]_vars

C9_Witness ==
  /\ ~isApiKeyValid
  /\ \A c \in Calls : pc[c] = "refused" /\ outcome[c] = Rejected(ErrNotAvailable)

\* C10: every monitorTransaction call eventually resolves or rejects, from
\* whichever connection state it was issued in, also when the attempt it
\* waits on ends without 'open'.
C10_EveryCallSettles ==
  \A c \in Calls : (outcome[c].st = "pending") ~> Settled(outcome[c])

C10_Witness ==
  \E a, b \in Calls :
    /\ pc[a] = "refused" /\ outcome[a] = Rejected(ErrNotAvailable)
    /\ \E s \in Sockets : connectPromise[s] = "rejected"
    /\ timeout[b] = "fired" /\ outcome[b] = Resolved(FALSE, "undefined")

\* C11: disconnect() leaves an empty table, no connection handle, no idle
\* timer and no subscription timer armed, and a second disconnect() right
\* after it changes nothing and rejects no waiter.
C11_DisconnectIdempotent ==
  [][lastOp' = "disconnect"
       => /\ subscriptions' = <<>>
          /\ ws' = 0
          /\ idleTimeout' # "armed"
          /\ \A c \in Calls : timeout'[c] # "armed"
          /\ disconnectHeap(Heap') = Heap']_vars

Live(s) == readyState[s] \in {"CONNECTING", "OPEN"}

C13_AtMostOneLiveSocket ==
  /\ Cardinality({s \in Sockets : Live(s)}) <= 1
  /\ (\E s \in Sockets : Live(s)) => ensureWebSocketConnected # "connect"

\* C14: every frame the provider sends is a signatureSubscribe carrying the
\* local id of a registered call, each registered call has sent exactly one,
\* and a frame is sent only in the step that registers its call (none after
\* a notification, timeout, error response or disconnect).
C14_OnlySubscribeFramesOnePerCall ==
  /\ [](/\ \A f \in sent :
             f.method = "signatureSubscribe" /\ \E c \in Calls : localId[c] = f.id
        /\ \A c \in Calls :
             localId[c] # 0 => Cardinality({f \in sent : f.id = localId[c]}) = 1)
  /\ [][sent' # sent
          => /\ lastOp' \in {"OnOpen", "ContinueMonitor"}
             /\ \A f \in sent' \ sent :
                  \E c \in Calls : localId[c] = 0 /\ localId'[c] = f.id]_vars

\* C15: a new provider has no socket, initialize() opens none however often
\* it is called, and a socket is constructed only by a monitorTransaction
\* call of a provider with a valid API key, with the WebSocket URL of the
\* configured network.
C15_SocketOnDemandOnly ==
  /\ (nSockets = 0 /\ ws = 0 /\ connecting = 0
        /\ \A s \in Sockets : readyState[s] = "NONE")
  /\ [][/\ lastOp' = "initialize"
            => UNCHANGED <<nSockets, ws, connecting, readyState, connectPromise,
                           socketUrl, subscriptions, idleTimeout>>
        /\ (nSockets' # nSockets \/ \E s \in Sockets : readyState[s] = "NONE" /\ readyState'[s] # "NONE")
            => /\ lastOp' = "monitorTransaction"
               /\ apiKey # ""
               /\ nSockets' = nSockets + 1
               /\ \A s \in Sockets :
                    (readyState[s] = "NONE" /\ readyState'[s] # "NONE") <=> s = nSockets'
               /\ socketUrl'[nSockets'] =
                    "wss://" \o (IF \E i \in 1..Len(network) : network[i] = "devnet"
                                 THEN "devnet" ELSE "mainnet")
                            \o ".helius-rpc.com/?api-key=" \o apiKey]_vars

C15_Witness ==
  /\ lastOp = "initialize"
  /\ nSockets = 1
  /\ readyState[1] = "CONNECTING"
  /\ socketUrl[1] = "wss://devnet.helius-rpc.com/?api-key=k1"
  /\ network = <<"solana-", "devnet", "-2">>

\* C16: getHttpUrl() and getWebSocketUrl() depend on (apiKey, network) only
\* and no monitoring operation changes them: the subdomain is devnet exactly
\* for a network name containing 'devnet', the HTTP URL is well formed also
\* for an empty key, and the WebSocket URL is null for an empty key.
ExpectedSubdomain(net) ==
  IF \E i \in 1..Len(net) : net[i] = "devnet" THEN "devnet" ELSE "mainnet"

C16_UrlsPure ==
  /\ [](\A net \in Networks :
          /\ getHttpUrl(net) =
               "https://" \o ExpectedSubdomain(net) \o ".helius-rpc.com/?api-key=" \o apiKey
          /\ getWebSocketUrl(net) =
               IF apiKey = "" THEN NullUrl
               ELSE "wss://" \o ExpectedSubdomain(net) \o ".helius-rpc.com/?api-key=" \o apiKey)
  /\ [][/\ getHttpUrl(network)' = getHttpUrl(network)
        /\ getWebSocketUrl(network)' = getWebSocketUrl(network)]_vars

C16_Witness ==
  /\ network = <<"solana-", "devnet", "-2">>
  /\ getHttpUrl(network) = "https://devnet.helius-rpc.com/?api-key=k1"
  /\ \E c \in Calls : outcome[c] = Resolved(TRUE, "value:{err:null}")
  /\ ~isWebSocketConnected

\* C17: an InfuraService, whatever its configuration, has no WebSocket URL
\* and reports no monitoring support, and its monitorTransaction rejects
\* with 'unsupported' and changes nothing else.
C17_InfuraHasNoPushChannel ==
  /\ [](infura.state = "constructed"
          => /\ Infura_getWebSocketUrl = NullUrl
             /\ ~Infura_supportsTransactionMonitoring
             /\ nSockets = 0 /\ ws = 0 /\ subscriptions = <<>>)
  /\ [][lastOp' = "InfuraMonitorTransaction"
          => /\ infura' = [infura EXCEPT !.monitor = Rejected(ErrUnsupported)]
             /\ UNCHANGED <<apiKey, heliusVars>>]_vars

C17_Witness ==
  /\ lastOp = "InfuraMonitorTransaction"
  /\ infura.state = "constructed"
  /\ infura.chainId = 137
  /\ infura.health = "true"
  /\ infura.monitor = Rejected(ErrUnsupported)

\* C18: healthCheck() of a constructed InfuraService never throws: it
\* completes with true when the probe succeeds and with false when it fails.
C18_HealthCheckNeverThrows ==
  /\ [](infura.state = "constructed" => infura.health \in {"none", "true", "false"})
  /\ [][lastOp' = "InfuraHealthCheck"
          => infura'.health = IF infura'.probe = "ok" THEN "true" ELSE "false"]_vars

C18_Witness ==
  /\ lastOp = "InfuraHealthCheck"
  /\ infura.state = "constructed"
  /\ infura.probe = "error"
  /\ infura.health = "false"

\* C19: between event handlers the idle timer is armed exactly when the
\* subscription table is empty and a connection is open.
C19_IdleArmedIffEmptyAndOpen ==
  microtasks = <<>>
    => ((idleTimeout = "armed") <=> (Len(subscriptions) = 0 /\ isWebSocketConnected))

\* C20: when the idle timer closes the connection, no monitorTransaction
\* call is still unsettled.
C20_IdleCloseOnlyWhenNoneOutstanding ==
  [][(lastOp' = "IdleTimeout" /\ ws # 0 /\ ws' = 0)
       => \A c \in Calls : outcome[c].st # "pending"]_vars

\* C21: an outstanding subscription is in the table under exactly one key:
\* its local id until its acknowledgment has been processed, the server id
\* the acknowledgment gave it from then on.
KeysOf(m, c) == {m[i].key : i \in EntryOf(m, c)}

C21_ExactlyOneKeyPerSubscription ==
  microtasks = <<>>
    => \A c \in Calls :
         Outstanding(c)
           => KeysOf(subscriptions, c) =
                {IF vendorSub[localId[c]] = 0 THEN localId[c] ELSE vendorSub[localId[c]]}

\* C22: local ids are handed out in strictly increasing order and never
\* reused, whatever happens to the connection in between; a call that is
\* refused before registration takes none.
Registered == {c \in Calls : localId[c] # 0}

C22_LocalIdsIncreasingNeverReused ==
  /\ [](/\ \A c, d \in Registered : c # d => localId[c] # localId[d]
        /\ \A c \in Registered : localId[c] < nextSubscriptionId
        /\ nextSubscriptionId = 1 + Cardinality(Registered)
        /\ \A c \in Calls : pc[c] # "subscribed" => localId[c] = 0)
  /\ [][/\ nextSubscriptionId' =
             nextSubscriptionId + Cardinality(Registered' \ Registered)
        /\ \A c \in Calls :
             IF localId[c] # 0
             THEN localId'[c] = localId[c]
             ELSE localId'[c] # 0
                    => /\ localId'[c] >= nextSubscriptionId
                       /\ localId'[c] < nextSubscriptionId'
                       /\ \A d \in Registered : localId[d] < localId'[c]]_vars

\* a second call registered on a second socket, after the first was closed
C22_Witness ==
  /\ Registered = Calls
  /\ \E c, d \in Calls :
       /\ SubscribeFrame(1, localId[c]) \in sent
       /\ SubscribeFrame(2, localId[d]) \in sent
       /\ localId[c] < localId[d]

\* C23: a notification settles a call only if that call's acknowledgment
\* has been processed and gave it the notification's subscription number;
\* a notification whose number no acknowledgment has assigned is dropped
\* and changes nothing.
AckedAs(sid) == {c \in Registered : vendorSub[localId[c]] = sid}

C23_NotificationNeedsAck ==
  \A sid \in ServerIds, p \in Payloads :
    (microtasks = <<>> /\ \E s \in Sockets : readyState[s] = "OPEN")
      => LET h == handleWebSocketMessage(
                    Heap, NotificationFrame("signatureNotification", sid, p))
         IN /\ \A c \in Calls : h.outcome[c] # outcome[c] => c \in AckedAs(sid)
            /\ AckedAs(sid) = {} => h = Heap

\* C24: an error response of the benign class (code -32602, message
\* containing 'Invalid subscription') for an id whose call has already been
\* settled changes nothing: no waiter, table entry, timer or connection.
AlreadySettledId(id) == \E c \in Registered : localId[c] = id /\ Settled(outcome[c])

BenignFrames(id) ==
  {ErrorFrame(id, -32602, msg) : msg \in {<<"Invalid", "subscription", "id">>}}

C24_BenignErrorSwallowed ==
  [][\A id \in Calls :
       (lastOp' \in {"OnBenignError", "OnErrorResponse"} /\ AlreadySettledId(id)
        /\ \E s \in Sockets, m \in BenignFrames(id) :
             SubscribeFrame(s, id) \in sent /\ OnMessage(s, m))
         => UNCHANGED <<outcome, settles, subscriptions, timeout, idleTimeout, pc,
                        localId, nextSubscriptionId, sent, ws, readyState,
                        connecting, connectPromise, waiters>>]_vars

\* a benign error arrived for a settled call while the other call is tracked
C24_Witness ==
  /\ lastOp = "OnBenignError"
  /\ \E c \in Registered, d \in Calls :
       /\ Settled(outcome[c]) /\ Outstanding(d)
       /\ MapHas(subscriptions, localId[c])
       /\ \E s \in Sockets :
            readyState[s] = "OPEN" /\ SubscribeFrame(s, localId[c]) \in sent

\* C25: the calls waiting on one connection attempt share its outcome: when
\* it succeeds each of them registers and sends its subscribe request on
\* that socket, when it fails each of them rejects with 'WebSocket not
\* available'; and no call registers or sends while the provider holds no
\* open connection.
WaitingCalls == {waiters[i] : i \in 1..Len(waiters)}

C25_WaitersShareOutcome ==
  [][/\ \A s \in Sockets :
          (connectPromise[s] = "pending" /\ connectPromise'[s] = "resolved")
            => \A c \in WaitingCalls :
                 /\ pc'[c] = "subscribed"
                 /\ outcome'[c] = Pending
                 /\ SubscribeFrame(s, localId'[c]) \in sent'
     /\ \A s \in Sockets :
          (connectPromise[s] = "pending" /\ connectPromise'[s] = "rejected")
            => \A c \in WaitingCalls :
                 pc'[c] = "refused" /\ outcome'[c] = Rejected(ErrNotAvailable)
     /\ \A c \in Calls :
          (pc[c] # "subscribed" /\ pc'[c] = "subscribed")
            => IsOpen(ws', readyState')]_vars

\* C26: after an 'error' event on the connected socket the provider is not
\* Connected, and the 'close' event ws emits after it leaves the provider
\* without a handle and fails every waiter that was outstanding.
ErrorWhileConnected ==
  ws # 0 /\ readyState[ws] = "CLOSING" /\ connectPromise[ws] = "resolved"

C26_TransportErrorFailsWaiters ==
  /\ [](ErrorWhileConnected => ~isWebSocketConnected)
  /\ [][(lastOp' = "OnError" /\ isWebSocketConnected /\ readyState'[ws] # "OPEN")
          => ErrorWhileConnected']_vars
  /\ [][(ErrorWhileConnected /\ lastOp' = "OnClose" /\ readyState'[ws] = "CLOSED")
          => /\ ws' = 0
             /\ \A c \in Calls :
                  Outstanding(c) => outcome'[c] = Rejected(ErrWebSocketDisconnected)]_vars

\* C27: between handlers the table holds no entry of a call that has
\* already been resolved, rejected or timed out.
C27_NoEntryOfSettledCall ==
  microtasks = <<>>
    => \A c \in Calls : Settled(outcome[c]) => EntryOf(subscriptions, c) = {}

\* C28: every registered, unsettled call has a table entry, and processing
\* an acknowledgment leaves the number of tracked subscriptions unchanged.
C28_AckKeepsEveryEntry ==
  /\ [](microtasks = <<>>
          => \A c \in Calls : Outstanding(c) => EntryOf(subscriptions, c) # {})
  /\ [][lastOp' = "OnAck"
          => /\ Len(subscriptions') = Len(subscriptions)
             /\ \A c \in Calls :
                  EntryOf(subscriptions, c) # {} => EntryOf(subscriptions', c) # {}]_vars

\* C29: settling one subscription, by its notification, by an error
\* response or by its timer, leaves every other subscription alone: the
\* other's entry stays, its timer stays armed, its waiter is not settled.
OthersUntouched(h, c) ==
  \A d \in Calls \ {c} :
    /\ h.outcome[d] = outcome[d]
    /\ h.settles[d] = settles[d]
    /\ h.timeout[d] = timeout[d]
    /\ EntryOf(subscriptions, d) # {} => EntryOf(h.subscriptions, d) # {}

C29_SettlingIsScoped ==
  microtasks = <<>>
    => /\ \A c \in Calls :
            timeout[c] = "armed" => OthersUntouched(timeoutCallback(Heap, c), c)
       /\ \A s \in Sockets, sid \in ServerIds, p \in Payloads :
            (readyState[s] = "OPEN" /\ MapHas(subscriptions, sid))
              => OthersUntouched(
                   handleWebSocketMessage(
                     Heap, NotificationFrame("signatureNotification", sid, p)),
                   MapCall(subscriptions, sid))
       /\ \A s \in Sockets, id \in Calls, code \in ErrorCodes, msg \in ErrorMessages :
            (/\ readyState[s] = "OPEN" /\ SubscribeFrame(s, id) \in sent
             /\ MapHas(subscriptions, id))
              => OthersUntouched(handleWebSocketMessage(Heap, ErrorFrame(id, code, msg)),
                                 MapCall(subscriptions, id))

\* C30: the 'close' event of a socket the provider has abandoned leaves a
\* newer, established connection alone: the handle is kept and the
\* subscriptions registered on the newer socket are not rejected.
RegisteredOn(s) == {c \in Registered : SubscribeFrame(s, localId[c]) \in sent}

C30_LateCloseAffectsOnlyItsSocket ==
  [][\A s \in Sockets :
       (/\ lastOp' = "OnClose"
        /\ readyState[s] # "CLOSED" /\ readyState'[s] = "CLOSED"
        /\ ws # 0 /\ ws # s /\ readyState[ws] = "OPEN")
         => /\ ws' = ws
            /\ \A c \in RegisteredOn(ws) :
                 /\ outcome'[c] = outcome[c]
                 /\ timeout'[c] = timeout[c]
                 /\ EntryOf(subscriptions', c) = EntryOf(subscriptions, c)]_vars

\* C31: between handlers a non-empty subscription table implies that the
\* provider holds a connection handle.
C31_EntriesImplyHandle ==
  (microtasks = <<>> /\ subscriptions # <<>>) => ws # 0

\* C32: once disconnect() or a transport close has been processed no
\* subscription timer is armed, and a call settled by a notification, an
\* error response, a close or disconnect() has no armed timer left.
SettledByHandler(c) ==
  /\ Settled(outcome[c])
  /\ outcome[c] \notin {Rejected(ErrSendOnNull), Rejected(ErrSendConnecting),
                         Resolved(FALSE, "undefined")}

C32_NoTimerSurvivesSettling ==
  /\ [](microtasks = <<>>
          => \A c \in Calls : SettledByHandler(c) => timeout[c] # "armed")
  /\ [][lastOp' \in {"disconnect", "OnClose"}
          => \A c \in Calls : timeout'[c] # "armed"]_vars

\* C33: monitorTransaction ensures the connection, then cancels the idle
\* timer, then allocates the local id and registers the subscription with
\* its armed timer, and only then sends the subscribe request: a frame is
\* on the wire only for a registered id, and no subscription timer runs
\* before a connection attempt has succeeded.
BeforeRegistration == {"new", "checked", "awaitFirst", "awaitJoin", "refused"}

C33_MonitorStepsInOrder ==
  /\ [](/\ \A c \in Calls :
             pc[c] \in BeforeRegistration
               => /\ localId[c] = 0 /\ timeout[c] = "none"
                  /\ EntryOf(subscriptions, c) = {}
                  /\ \A s \in Sockets : SubscribeFrame(s, nextSubscriptionId) \notin sent
        /\ \A c \in Calls :
             timeout[c] # "none" => \E s \in Sockets : connectPromise[s] = "resolved"
        /\ \A s \in Sockets, id \in Calls :
             SubscribeFrame(s, id) \in sent => \E c \in Registered : localId[c] = id)
  /\ [][\A c \in Registered' \ Registered :
          /\ pc[c] \in {"checked", "awaitFirst", "awaitJoin"}
          /\ idleTimeout' = "null"
          /\ localId'[c] >= nextSubscriptionId
          /\ MapHas(subscriptions', localId'[c])
          /\ MapCall(subscriptions', localId'[c]) = c
          /\ timeout'[c] = "armed"
          /\ \A s \in Sockets :
               SubscribeFrame(s, localId'[c]) \in sent' => s = ws /\ readyState'[s] = "OPEN"]_vars

\* a call registered and sent its request after cancelling the idle timer
\* that the previous call's settling had armed
C33_Witness ==
  /\ lastOp = "ContinueMonitor"
  /\ \E c, d \in Registered :
       /\ Settled(outcome[c]) /\ Outstanding(d)
       /\ localId[c] < localId[d]
       /\ idleTimeout = "null"
       /\ timeout[d] = "armed"
       /\ MapHas(subscriptions, localId[d])
       /\ ws # 0 /\ SubscribeFrame(ws, localId[d]) \in sent

====
